---- MODULE Spec2Model ----
(***************************************************************************)
(* MTA Bus Time sensors for Home Assistant.                                *)
(*                                                                         *)
(*   src/sensor.py                                 single-target sensor    *)
(*   src/custom_components/mta_bus_time/sensor.py  multi-target sensors    *)
(*                                                 sharing one MTAData     *)
(*                                                                         *)
(* Conventions.  A Python string is a tuple of tokens: "Error" is          *)
(* <<"Error">>, "in 5 minutes" is <<"in", 5, "minutes">>, and              *)
(* "June 01, 2024 at 02:05 PM" is <<"June", 1, 2024, 2, 5, "PM">>.  None,  *)
(* the empty string and the empty list are <<>>; an optional value is a    *)
(* tuple of length 0 or 1.  A dict is a function on its keys, {} is <<>>.  *)
(* Instants are seconds since 2024-01-01T00:00:00Z.                        *)
(***************************************************************************)
EXTENDS Integers, Sequences, FiniteSets, TLC

VARIABLES
    now,            \* the clock: the current UTC instant, in seconds
    localOff,       \* the host's local UTC offset, in seconds (what datetime.now(None) uses)
    s_state,        \* MTABusSensor._state
    s_attributes,   \* MTABusSensor._attributes
    s_resp,         \* the response the latest MTABusSensor.update() received (optional)
    info,           \* MTAData.info
    throttle,       \* the Throttle decorator's "last run" timestamp of MTAData.update (optional)
    pc,             \* "setup" | "idle" | "fetching": where the platform is ("off": not loaded)
    caller,         \* who called the MTAData.update() in progress
    cur,            \* index in Departures of the departure being fetched
    new_info,       \* MTAData.update's local new_info
    new_resp,       \* the responses received so far by the pass in progress
    resp,           \* per departure, the response of the last completed pass (optional)
    fetches,        \* per departure, the number of requests.get calls made for it
    lastCall,       \* the instant of the latest call of MTAData.update (optional)
    m_state,        \* per departure, MTABusStopSensor._state (its _attributes, which
                    \* update() also writes, is read by nothing and is left out)
    e_raw,          \* a raw ExpectedArrivalTime handed to the ETA pipeline
    e_out           \* what the ETA pipeline made of e_raw (optional)

vars == <<now, localOff, s_state, s_attributes, s_resp, info, throttle, pc, caller,
          cur, new_info, new_resp, resp, fetches, lastCall, m_state, e_raw, e_out>>

singleVars == <<s_state, s_attributes, s_resp>>
multiVars  == <<info, throttle, pc, caller, cur, new_info, new_resp, resp, fetches,
                lastCall, m_state>>
etaVars    == <<e_raw, e_out>>

\* ------------------------------------------------------------------ bounds
MaxTicks == 5     \* the clock advances at most this many steps

\* ------------------------------------------------------------ text values
None == <<>>
Txt(s) == <<s>>
Unavailable == Txt("Unavailable")
NoArrivals == Txt("No arrivals")
NoData == Txt("No data")
Error == Txt("Error")
Departed == Txt("Departed")
NA == Txt("N/A")

Get(dict, key, default) == IF key \in DOMAIN dict THEN dict[key] ELSE default

\* ---------------------------------------------------------------- calendar
MonthNames == <<"January", "February", "March", "April", "May", "June", "July",
                "August", "September", "October", "November", "December">>
DaysInMonth == <<31, 29, 31, 30, 31, 30, 31, 31, 30, 31, 30, 31>>

RECURSIVE DaysBeforeMonth(_)
DaysBeforeMonth(m) == IF m = 1 THEN 0 ELSE DaysBeforeMonth(m - 1) + DaysInMonth[m - 1]

\* A raw ISO-8601 timestamp "YYYY-MM-DDTHH:MM:SS+HH:MM" as its fields.
Iso(Y, Mo, D, h, mi, s, sign, oh, om) == <<Y, Mo, D, h, mi, s, sign, oh, om>>
Garbage == Txt("not a timestamp")

\* parser.parse / datetime.fromisoformat: an aware datetime, or None when the
\* call raises (the except clause logs and leaves the variable None).
ParseTime(raw) ==
    IF Len(raw) = 9
    THEN << [year |-> raw[1], month |-> raw[2], day |-> raw[3],
             hour |-> raw[4], minute |-> raw[5], second |-> raw[6],
             aware |-> TRUE,
             off |-> (IF raw[7] = "-" THEN -1 ELSE 1) * (raw[8] * 3600 + raw[9] * 60)] >>
    ELSE None

\* `if raw_eat: try: expected_dt = parse(raw_eat) ...`
ExpectedDt(visit) ==
    IF visit.ExpectedArrivalTime # None THEN ParseTime(visit.ExpectedArrivalTime) ELSE None

\* dt.strftime("%B %d, %Y at %I:%M %p"): seconds and UTC offset are not printed.
Strftime(dt) ==
    << MonthNames[dt.month], dt.day, dt.year,
       (IF dt.hour % 12 = 0 THEN 12 ELSE dt.hour % 12), dt.minute,
       (IF dt.hour < 12 THEN "AM" ELSE "PM") >>

\* datetime.strptime(s, "%B %d, %Y at %I:%M %p"): a naive datetime.
Strptime(s) ==
    [year |-> s[3], month |-> CHOOSE m \in 1..12 : MonthNames[m] = s[1], day |-> s[2],
     hour |-> (s[4] % 12) + (IF s[6] = "PM" THEN 12 ELSE 0), minute |-> s[5],
     second |-> 0, aware |-> FALSE, off |-> 0]

\* `X.strftime(...) if X else "Unavailable"`
Formatted(optdt) == IF optdt # None THEN Strftime(optdt[1]) ELSE Unavailable

\* The wall-clock reading of a datetime, in seconds since 2024-01-01T00:00:00.
WallSecs(dt) ==
    (((dt.year - 2024) * 366 + DaysBeforeMonth(dt.month) + dt.day - 1) * 24 + dt.hour) * 3600
        + dt.minute * 60 + dt.second

\* datetime.now(dt.tzinfo), as a wall-clock reading: in dt's zone when dt is
\* aware, in the host's local zone when dt is naive (tzinfo is None).
NowWall(dt) == now + (IF dt.aware THEN dt.off ELSE localOff)

\* delta = expected_dt - now_dt; minutes = int(delta.total_seconds() // 60);
\* f"in {minutes} minutes" if minutes >= 0 else "Departed"
EtaOf(expected_dt) ==
    LET delta == WallSecs(expected_dt) - NowWall(expected_dt)
        minutes == delta \div 60
    IN  IF minutes >= 0 THEN <<"in", minutes, "minutes">> ELSE Departed

\* The absolute (UTC) instant a datetime denotes; a naive one is local time.
AbsInstant(dt) == WallSecs(dt) - (IF dt.aware THEN dt.off ELSE localOff)

\* ------------------------------------------------------- provider responses
\* What requests.get and response.json() can give one fetch:
\*   "raise"      requests.get raised (timeout, connection error)
\*   "http"       a response whose status_code is not 200
\*   "badjson"    status 200, but json() raises or the body is not the
\*                nested mapping the lookups expect (a lookup raises)
\*   "nodelivery" status 200, Siri.ServiceDelivery.StopMonitoringDelivery
\*                absent or empty
\*   "delivery"   status 200, delivery[0].MonitoredStopVisit = visits
Response(kind, status, visits) == [kind |-> kind, status_code |-> status, visits |-> visits]
RespRaise == Response("raise", 0, <<>>)
Resp500 == Response("http", 500, <<>>)
RespBadJson == Response("badjson", 200, <<>>)
RespNoDelivery == Response("nodelivery", 200, <<>>)
RespVisits(raws) ==
    Response("delivery", 200, [i \in 1..Len(raws) |-> [ExpectedArrivalTime |-> raws[i]]])

\* The try block is left by an exception.
Raises(response) == response.kind \in {"raise", "badjson"}

\* The arrival dict of one visit.  Only the estimated time is kept: the other
\* ten keys are copied from the visit and read by nothing else.
Arrival(visit) == [k \in {"Estimated Arrival Time"} |-> Formatted(ExpectedDt(visit))]
Arrivals(visits) == [i \in 1..Len(visits) |-> Arrival(visits[i])]

\* Feed timestamps: 14:00:00 is StartUtc in the feed's zone (-04:00).
T1 == Iso(2024, 6, 1, 14, 1, 0, "-", 4, 0)
T2 == Iso(2024, 6, 1, 14, 2, 30, "-", 4, 0)
StartUtc == AbsInstant(ParseTime(Iso(2024, 6, 1, 14, 0, 0, "-", 4, 0))[1])
TickSteps == {30}
MaxStep == CHOOSE s \in TickSteps : \A t \in TickSteps : t <= s

\* time passes
Tick ==
    /\ \E step \in TickSteps :
        /\ now + step <= StartUtc + MaxTicks * MaxStep
        /\ now' = now + step
    /\ UNCHANGED <<localOff, singleVars, multiVars, etaVars>>

\* ======================================================= single-target mode
SingleResponses ==
    {RespRaise, Resp500, RespBadJson, RespNoDelivery}
        \cup {RespVisits(v) : v \in {<<>>, <<T1>>, <<None>>, <<Garbage>>,
                                     <<T1, T2>>, <<T2, T1>>, <<Garbage, T1>>, <<T1, None>>}}

\* MTABusSensor.update: the value left in self._state.
SensorStateMixedUp(response) ==
    IF Raises(response) \/ response.status_code # 200 THEN Error
    ELSE IF response.kind = "nodelivery" THEN NoArrivals
    ELSE IF response.visits = <<>> THEN NoData
    ELSE Arrival(response.visits[1])["Estimated Arrival Time"]

SensorState(response) ==
    IF response.kind = "raise" THEN Error
    ELSE IF response.status_code # 200 THEN Error
    ELSE IF response.kind = "badjson" THEN Error
    ELSE IF response.kind = "nodelivery" THEN NoData
    ELSE IF Arrivals(response.visits) = <<>> THEN NoArrivals
    ELSE Arrivals(response.visits)[1]["Estimated Arrival Time"]

\* MTABusSensor.update: the value left in self._attributes.  expected_dt is
\* the loop's variable, read after the loop: it is the LAST visit's.
SensorAttributes(response) ==
    IF response.kind = "raise" \/ response.status_code # 200 \/ response.kind = "badjson"
    THEN s_attributes
    ELSE LET arrivals == IF response.kind = "delivery" THEN Arrivals(response.visits) ELSE <<>>
             expected_dt == ExpectedDt(response.visits[Len(response.visits)])
             eta_in_minutes == IF expected_dt # None THEN EtaOf(expected_dt[1]) ELSE NA
         IN  IF arrivals # <<>>
             THEN ("Arrivals" :> arrivals) @@ ("ETA in minutes" :> eta_in_minutes)
             ELSE ("Arrivals" :> arrivals)

\* MTABusSensor.update
SensorUpdate(response) ==
    /\ s_resp' = <<response>>
    /\ s_state' = SensorState(response)
    /\ s_attributes' = SensorAttributes(response)
    /\ UNCHANGED <<now, localOff, multiVars, etaVars>>

\* MTABusSensor.state and MTABusSensor.extra_state_attributes
SensorReadState == s_state
SensorReadAttributes == s_attributes

IdleMulti ==
    /\ info = <<>> /\ throttle = None /\ pc = "off" /\ caller = "none" /\ cur = 0
    /\ new_info = <<>> /\ new_resp = <<>> /\ resp = <<>> /\ fetches = <<>>
    /\ lastCall = None /\ m_state = <<>>
IdleEta == e_raw = None /\ e_out = None

InitSingle ==
    /\ now = StartUtc
    /\ localOff = 0
    /\ s_state = None
    /\ s_attributes = <<>>
    /\ s_resp = None
    /\ IdleMulti /\ IdleEta

NextSingle ==
    \/ \E response \in SingleResponses : SensorUpdate(response)
    \/ Tick

SpecSingle == InitSingle /\ [][NextSingle]_vars

\* ------------------------------------------------ single-target mode: claims
Failed(response) == Raises(response) \/ response.status_code # 200
YieldsArrivals(response) == ~Failed(response) /\ response.kind = "delivery" /\ response.visits # <<>>
HasEta(attrs) == "ETA in minutes" \in DOMAIN attrs

\* What the ETA Calculator makes of one visit at the current instant.
FreshEta(visit) == IF ExpectedDt(visit) # None THEN EtaOf(ExpectedDt(visit)[1]) ELSE NA

\* C2: an update() that yields at least one arrival leaves an "ETA in minutes"
\* derived from the FIRST arrival's estimated instant, and "N/A" exactly when
\* that first instant is absent or unparsable.
C2_EtaFromFirstArrival ==
    [][\A response \in SingleResponses :
          (SensorUpdate(response) /\ YieldsArrivals(response))
              => /\ HasEta(s_attributes')
                 /\ s_attributes'["ETA in minutes"] = FreshEta(response.visits[1])]_vars

\* C3: every read of the attributes gives an "ETA in minutes" computed against
\* the instant of the read.  Stated for the reads that follow an update whose
\* first and last visit carry the same timestamp, so that the arrival the ETA
\* belongs to is not in question.
C3_EtaFreshOnRead ==
    (/\ s_resp # None
     /\ YieldsArrivals(s_resp[1])
     /\ s_resp[1].visits[1] = s_resp[1].visits[Len(s_resp[1].visits)])
        => /\ HasEta(SensorReadAttributes)
           /\ SensorReadAttributes["ETA in minutes"] = FreshEta(s_resp[1].visits[1])

\* C5: after an update() whose fetch failed, the attributes hold no arrivals
\* and no "ETA in minutes".
C5_FailureClearsAttributes ==
    (s_resp # None /\ Failed(s_resp[1]))
        => /\ Get(SensorReadAttributes, "Arrivals", <<>>) = <<>>
           /\ ~HasEta(SensorReadAttributes)

\* C7: after update() the state is one of four outcomes, decided by that
\* update's fetch: "Error" for an exception or a non-200 status, "No data" for
\* an absent delivery, "No arrivals" for a delivery without visits, and else
\* the first arrival's formatted estimated time.
C7_StateOutcome ==
    s_resp # None =>
        LET r == s_resp[1] IN
        /\ (r.kind \in {"raise", "badjson"} \/ r.status_code # 200) => SensorReadState = Error
        /\ (r.kind = "nodelivery" /\ r.status_code = 200) => SensorReadState = NoData
        /\ (r.kind = "delivery" /\ r.status_code = 200 /\ r.visits = <<>>)
               => SensorReadState = NoArrivals
        /\ (r.kind = "delivery" /\ r.status_code = 200 /\ r.visits # <<>>)
               => SensorReadState = Formatted(ExpectedDt(r.visits[1]))

C7_Witness ==
    /\ s_resp = <<RespVisits(<<T1, T2>>)>>
    /\ s_state = <<"June", 1, 2024, 2, 1, "PM">>
    /\ Len(s_attributes["Arrivals"]) = 2

\* ======================================================== multi-target mode
MIN_TIME_BETWEEN_UPDATES == 60

\* config[CONF_DEPARTURES]: the names of the configured departures, in order.
Departures == <<"Uptown", "Downtown">>
Names == {Departures[i] : i \in 1..Len(Departures)}
Callers == {"setup"} \cup Names
MonitoringRef(dep) == <<"MTA", dep>>

MultiResponses ==
    {RespRaise, Resp500, RespBadJson, RespNoDelivery}
        \cup {RespVisits(v) : v \in {<<>>, <<T1>>, <<None, T1>>, <<T2, T1>>}}

\* @Throttle(MIN_TIME_BETWEEN_UPDATES): the wrapper runs the method when it
\* never ran, or when more than min_time has passed since its last run
\* returned; otherwise it returns None without calling it.  (Its lock only
\* matters to concurrent callers; the platform updates its sensors one at a time.)
ThrottledByLastCall ==
    lastCall # None /\ ~(now - lastCall[1] > MIN_TIME_BETWEEN_UPDATES)

Throttled == throttle # None /\ ~(now - throttle[1] > MIN_TIME_BETWEEN_UPDATES)

\* MTAData.update, one iteration of the loop: what goes into new_info[dep_name].
FetchArrivalsKeepStale(dep, response) ==
    IF Raises(response) THEN Get(info, dep, <<>>)
    ELSE IF response.status_code # 200 THEN <<>>
    ELSE IF response.kind = "nodelivery" THEN <<>>
    ELSE Arrivals(response.visits)

FetchArrivals(dep, response) ==
    IF response.kind = "raise" THEN <<>>                \* except Exception
    ELSE IF response.status_code # 200 THEN <<>>        \* HTTP error
    ELSE IF response.kind = "badjson" THEN <<>>         \* except Exception
    ELSE IF response.kind = "nodelivery" THEN <<>>      \* `if delivery:` not taken
    ELSE Arrivals(response.visits)

\* MTABusStopSensor.update: the value left in self._state.
UpdateState(mapping, dep) ==
    LET arrivals == Get(mapping, dep, <<>>) IN
    IF arrivals # <<>> /\ arrivals[1]["Estimated Arrival Time"] # Unavailable
    THEN arrivals[1]["Estimated Arrival Time"]
    ELSE NoArrivals

SetState(mapping, c) ==
    IF c \in Names THEN [m_state EXCEPT ![c] = UpdateState(mapping, c)] ELSE m_state

\* MTABusStopSensor.state
stateOfLastArrival(dep) ==
    LET arrivals == Get(info, dep, <<>>) IN
    IF arrivals # <<>> /\ arrivals[Len(arrivals)]["Estimated Arrival Time"] # Unavailable
    THEN arrivals[Len(arrivals)]["Estimated Arrival Time"]
    ELSE NoArrivals

state(dep) ==
    LET arrivals == Get(info, dep, <<>>) IN
    IF arrivals # <<>> /\ arrivals[1]["Estimated Arrival Time"] # Unavailable
    THEN arrivals[1]["Estimated Arrival Time"]
    ELSE NoArrivals

\* MTABusStopSensor.extra_state_attributes: the datetime the ETA is taken from.
ReparsedExpected(arrivals) == Strptime(arrivals[1]["Estimated Arrival Time"])

\* MTABusStopSensor.extra_state_attributes: eta_str.
EtaStr(arrivals) ==
    IF arrivals # <<>> /\ arrivals[1]["Estimated Arrival Time"] # Unavailable
    THEN EtaOf(ReparsedExpected(arrivals))
    ELSE NA

AttributesOf(arrivals, ref) ==
    ("Arrivals" :> arrivals) @@ ("Monitoring Ref" :> ref)
        @@ ("ETA in minutes" :> EtaStr(arrivals)) @@ ("Arrives" :> EtaStr(arrivals))

\* MTABusStopSensor.extra_state_attributes
extra_state_attributes(dep) == AttributesOf(Get(info, dep, <<>>), MonitoringRef(dep))

\* A call of MTAData.update(): by setup_platform ("setup") or by the update()
\* of the sensor of departure c.  Throttled, it returns at once and the
\* sensor's update() goes on to set _state; otherwise the pass begins.
BeginUpdate(c) ==
    /\ pc \in {"setup", "idle"}
    /\ (pc = "setup") <=> (c = "setup")
    /\ lastCall' = <<now>>
    /\ IF Throttled
       THEN /\ pc' = "idle"
            /\ m_state' = SetState(info, c)
            /\ UNCHANGED <<caller, cur, new_info, new_resp>>
       ELSE /\ pc' = "fetching"
            /\ caller' = c
            /\ cur' = 1
            /\ new_info' = <<>>
            /\ new_resp' = <<>>
            /\ UNCHANGED m_state
    /\ UNCHANGED <<now, localOff, info, throttle, resp, fetches, singleVars, etaVars>>

\* One iteration of the loop of MTAData.update: requests.get for the current
\* departure and the normalisation of its response.  After the last one the
\* method assigns self.info and returns, the wrapper records the time, and the
\* calling sensor's update() sets _state.
FetchOneInPlace(response) ==
    /\ pc = "fetching"
    /\ LET dep == Departures[cur] IN
       /\ fetches' = [fetches EXCEPT ![dep] = @ + 1]
       /\ info' = (dep :> FetchArrivals(dep, response)) @@ info
       /\ IF cur < Len(Departures)
          THEN /\ cur' = cur + 1
               /\ new_resp' = (dep :> <<response>>) @@ new_resp
               /\ UNCHANGED <<throttle, resp, pc, caller, m_state>>
          ELSE /\ resp' = (dep :> <<response>>) @@ new_resp
               /\ throttle' = <<now>>
               /\ pc' = "idle"
               /\ caller' = "none"
               /\ cur' = 0
               /\ new_resp' = <<>>
               /\ m_state' = SetState(info', caller)
    /\ UNCHANGED <<now, localOff, new_info, lastCall, singleVars, etaVars>>

FetchOne(response) ==
    /\ pc = "fetching"
    /\ LET dep == Departures[cur]
           ni == (dep :> FetchArrivals(dep, response)) @@ new_info
           nr == (dep :> <<response>>) @@ new_resp
       IN
       /\ fetches' = [fetches EXCEPT ![dep] = @ + 1]
       /\ IF cur < Len(Departures)
          THEN /\ cur' = cur + 1
               /\ new_info' = ni
               /\ new_resp' = nr
               /\ UNCHANGED <<info, throttle, resp, pc, caller, m_state>>
          ELSE /\ info' = ni
               /\ resp' = nr
               /\ throttle' = <<now>>
               /\ pc' = "idle"
               /\ caller' = "none"
               /\ cur' = 0
               /\ new_info' = <<>>
               /\ new_resp' = <<>>
               /\ m_state' = SetState(ni, caller)
    /\ UNCHANGED <<now, localOff, lastCall, singleVars, etaVars>>

IdleSingle == s_state = None /\ s_attributes = <<>> /\ s_resp = None

\* MTAData.__init__ has run; setup_platform is about to call data.update().
InitMulti ==
    /\ now = StartUtc
    /\ localOff = 0
    /\ info = <<>>
    /\ throttle = None
    /\ pc = "setup"
    /\ caller = "none"
    /\ cur = 0
    /\ new_info = <<>>
    /\ new_resp = <<>>
    /\ resp = <<>>
    /\ fetches = [d \in Names |-> 0]
    /\ lastCall = None
    /\ m_state = [d \in Names |-> None]
    /\ IdleSingle /\ IdleEta

NextMulti ==
    \/ \E c \in Callers : BeginUpdate(c)
    \/ \E response \in MultiResponses : FetchOne(response)
    \/ Tick

SpecMulti == InitMulti /\ [][NextMulti]_vars

\* ------------------------------------------------- multi-target mode: claims
Fetched(d) == d \in DOMAIN resp
Read(d) == extra_state_attributes(d)["Arrivals"]

\* C1, as claimed: a call of refresh made less than 60 seconds after the call
\* before it is a no-op that fetches nothing and leaves the mapping unchanged,
\* and a call made once more than 60 seconds have passed since the last
\* refresh begins a new pass.
C1_TwoCallsWithinInterval ==
    /\ [][\A c \in Callers :
            (BeginUpdate(c) /\ lastCall # None
                /\ now - lastCall[1] < MIN_TIME_BETWEEN_UPDATES)
                => (pc' = "idle" /\ info' = info /\ fetches' = fetches)]_vars
    /\ [][\A c \in Callers :
            (BeginUpdate(c) /\ throttle # None
                /\ now - throttle[1] > MIN_TIME_BETWEEN_UPDATES)
                => (pc' = "fetching" /\ cur' = 1)]_vars

\* C1, amended: the interval runs from the completion of the last pass that
\* fetched.  A call made no more than 60 seconds after it is a no-op that
\* fetches nothing and leaves the mapping unchanged; a call made more than 60
\* seconds after it (or before any pass) begins a pass, and a pass makes
\* exactly one fetch for each configured departure, in order, before it ends,
\* whatever the previous pass got for it.
C1_ThrottleSinceLastRefresh ==
    /\ [][\A c \in Callers :
            (BeginUpdate(c) /\ throttle # None
                /\ now - throttle[1] <= MIN_TIME_BETWEEN_UPDATES)
                => (pc' = "idle" /\ info' = info /\ fetches' = fetches
                        /\ throttle' = throttle)]_vars
    /\ [][\A c \in Callers :
            (BeginUpdate(c)
                /\ (throttle = None \/ now - throttle[1] > MIN_TIME_BETWEEN_UPDATES))
                => (pc' = "fetching" /\ cur' = 1 /\ new_info' = <<>>)]_vars
    /\ [][(pc = "fetching" /\ cur' # cur)
            => /\ fetches' = [fetches EXCEPT ![Departures[cur]] = @ + 1]
               /\ \/ pc' = "fetching" /\ cur' = cur + 1
                  \/ pc' = "idle" /\ cur = Len(Departures) /\ throttle' = <<now>>]_vars
    /\ [][fetches' # fetches => (pc = "fetching" /\ cur' # cur)]_vars

\* A second pass is under way, and it has fetched again a departure whose
\* fetch failed in the pass before.
C1_Witness ==
    /\ pc = "fetching"
    /\ cur = 2
    /\ Fetched(Departures[1])
    /\ Failed(resp[Departures[1]][1])
    /\ fetches[Departures[1]] = 2
    /\ fetches[Departures[2]] = 1
    /\ now - throttle[1] > MIN_TIME_BETWEEN_UPDATES

\* C6, as claimed: a departure whose response body could not be decoded has
\* state "Error".
C6_DecodeErrorGivesError ==
    \A d \in Names :
        (Fetched(d) /\ resp[d][1].kind = "badjson") => state(d) = Error

\* C6, amended: the fetcher catches the decode error: the departure's entry
\* becomes an empty sequence, its state reads "No arrivals", and the pass goes
\* on to the other departures; no state of a multi-target entity is "Error".
C6_DecodeErrorGivesNoArrivals ==
    /\ \A d \in Names :
        (Fetched(d) /\ resp[d][1].kind = "badjson")
            => /\ DOMAIN info = Names
               /\ info[d] = <<>>
               /\ state(d) = NoArrivals
               /\ Read(d) = <<>>
    /\ \A d \in Names : state(d) # Error /\ m_state[d] # Error

C6_Witness ==
    /\ pc = "idle"
    /\ resp = (Departures[1] :> <<RespBadJson>>) @@ (Departures[2] :> <<RespVisits(<<T1>>)>>)
    /\ state(Departures[1]) = NoArrivals
    /\ state(Departures[2]) = <<"June", 1, 2024, 2, 1, "PM">>

\* C8, as claimed: the state is "No arrivals" if and only if the Arrivals
\* attribute is empty.
C8_NoArrivalsIffEmpty ==
    \A d \in Names : (state(d) = NoArrivals) <=> (Read(d) = <<>>)

\* C8, amended: the state is "No arrivals" when the cached sequence is empty
\* (nothing fetched yet, a failed fetch, no delivery, no visits) and ALSO when
\* the first arrival has no parsable estimated time; otherwise it is the first
\* arrival's formatted estimated time.  Arrivals holds one record per visit.
C8_StateOfFirstArrival ==
    \A d \in Names :
        IF ~Fetched(d) THEN state(d) = NoArrivals /\ Read(d) = <<>>
        ELSE LET r == resp[d][1] IN
             IF Failed(r) \/ r.kind = "nodelivery" \/ r.visits = <<>>
             THEN state(d) = NoArrivals /\ Read(d) = <<>>
             ELSE /\ Len(Read(d)) = Len(r.visits)
                  /\ state(d) = IF ExpectedDt(r.visits[1]) = None
                                THEN NoArrivals
                                ELSE Strftime(ExpectedDt(r.visits[1])[1])

C8_Witness ==
    /\ Fetched(Departures[1])
    /\ resp[Departures[1]][1] = RespVisits(<<None, T1>>)
    /\ Len(Read(Departures[1])) = 2
    /\ state(Departures[1]) = NoArrivals

\* C9: the mapping changes only when a pass ends, in one step, to a mapping
\* that has an entry for every configured departure (the results of that pass,
\* an empty sequence where the fetch failed); reading a departure that is not
\* in the mapping gives an empty sequence.
C9_WholeMappingReplaced ==
    /\ [][info' # info
            => /\ pc = "fetching" /\ cur = Len(Departures) /\ pc' = "idle"
               /\ DOMAIN info' = Names
               /\ \A d \in DOMAIN new_info : info'[d] = new_info[d]]_vars
    /\ [][(pc = "fetching" /\ pc' = "idle")
            => /\ DOMAIN info' = Names
               /\ \A d \in Names :
                    info'[d] = IF Failed(resp'[d][1]) \/ resp'[d][1].kind = "nodelivery"
                               THEN <<>>
                               ELSE Arrivals(resp'[d][1].visits)]_vars
    /\ [](\A d \in Names :
            /\ d \notin DOMAIN info => (Read(d) = <<>> /\ state(d) = NoArrivals)
            /\ (Fetched(d) /\ Failed(resp[d][1])) => (d \in DOMAIN info /\ info[d] = <<>>))

\* A second pass in which every fetch failed has replaced a mapping that held
\* arrivals (a sensor's _state still shows them).
C9_Witness ==
    /\ pc = "idle"
    /\ DOMAIN info = Names
    /\ \A d \in Names : Failed(resp[d][1]) /\ info[d] = <<>> /\ fetches[d] = 2
    /\ \E d \in Names : m_state[d] = <<"June", 1, 2024, 2, 1, "PM">>

\* ============================================================ ETA pipeline
\* The two modes' ETA computation applied to one raw ExpectedArrivalTime, for
\* feeds and hosts in several zones.
EtaRaws ==
    {Iso(2024, 6, 1, h, mi, s, z[1], z[2], 0) :
        h \in {0, 12, 14, 23}, mi \in {4, 5}, s \in {0, 30, 59},
        z \in {<<"-", 4>>, <<"+", 0>>, <<"+", 1>>}}
EtaNows ==
    {AbsInstant(ParseTime(Iso(2024, 6, 1, 14, 5, 0, "-", 4, 0))[1]) + d :
        d \in {-300, -1, 0, 1, 10}}
LocalOffsets == {-14400, 0}

\* MTAData.update's normalisation followed by
\* MTABusStopSensor.extra_state_attributes.
EtaMultiTarget ==
    /\ e_out = None
    /\ LET arrivals == Arrivals(<<[ExpectedArrivalTime |-> e_raw]>>)
           attrs == AttributesOf(arrivals, <<"MTA">>)
       IN  e_out' = << [mode |-> "multi",
                        formatted |-> arrivals[1]["Estimated Arrival Time"],
                        used |-> ReparsedExpected(arrivals),
                        eta |-> attrs["ETA in minutes"],
                        arrives |-> attrs["Arrives"]] >>
    /\ UNCHANGED <<now, localOff, e_raw, singleVars, multiVars>>

\* MTABusSensor.update on a response with this one visit.
EtaSingleTarget ==
    /\ e_out = None
    /\ LET response == RespVisits(<<e_raw>>)
           attrs == SensorAttributes(response)
       IN  e_out' = << [mode |-> "single",
                        formatted |-> SensorState(response),
                        used |-> ExpectedDt(response.visits[1])[1],
                        eta |-> attrs["ETA in minutes"],
                        arrives |-> attrs["ETA in minutes"]] >>
    /\ UNCHANGED <<now, localOff, e_raw, singleVars, multiVars>>

InitEta ==
    /\ now \in EtaNows
    /\ localOff \in LocalOffsets
    /\ e_raw \in EtaRaws
    /\ e_out = None
    /\ IdleSingle /\ IdleMulti

NextEta == EtaMultiTarget \/ EtaSingleTarget

SpecEta == InitEta /\ [][NextEta]_vars

\* ------------------------------------------------------ ETA pipeline: claims
MultiDone == e_out # None /\ e_out[1].mode = "multi"
ExpectedInstant == AbsInstant(ParseTime(e_raw)[1])

\* C4: formatting the parsed instant and parsing the string again recovers
\* the same absolute instant at minute precision, whatever the feed's offset
\* and the host's zone.
C4_RoundTripRecoversInstant ==
    MultiDone => AbsInstant(e_out[1].used) = (ExpectedInstant \div 60) * 60

\* C10: in multi-target mode, with E the expected instant and N the current
\* one, the ETA (and "Arrives") is "in m minutes" for m = floor((E - N) / 60)
\* when m >= 0 and "Departed" when m < 0.  Stated for a host whose zone is the
\* feed's, where the offset the string does not carry is not in question.
C10_EtaIsFloorOfDelta ==
    (MultiDone /\ ParseTime(e_raw)[1].off = localOff)
        => LET m == (ExpectedInstant - now) \div 60 IN
           /\ e_out[1].eta = IF m >= 0 THEN <<"in", m, "minutes">> ELSE Departed
           /\ e_out[1].arrives = e_out[1].eta

====
